---- MODULE Spec2Model ----
(***************************************************************************)
(* TenisX API: the Product routes of main.py over the products table of    *)
(* models.py, and the image upload route.                                  *)
(***************************************************************************)
EXTENDS Integers, Sequences, FiniteSets, TLC

\* ------------------------------------------------------------------ bounds
MaxId == 2           \* primary keys the table hands out: 1..MaxId
MaxCreates == 3      \* successful POST /products per behaviour
NUploads == 2        \* concurrent POST /upload-image requests

\* ------------------------------------------------- column lengths, models.py
NameLen == 200
BrandLen == 100
GenderLen == 50
CategoryLen == 100
SizesLen == 200
StatusLen == 50
ImageUrlLen == 500

\* ------------------------------------------------------------- JSON values
\* A JSON value of a request body: a member that is left out, null, a string
\* (its text and its length in characters) or a number.
Absent == [k |-> "absent"]
Null == [k |-> "null"]
Str(t, n) == [k |-> "str", txt |-> t, len |-> n]
Num(n) == [k |-> "num", num |-> n]

IsStr(v) == v.k = "str"
IsNum(v) == v.k = "num"

Fields == {"name", "brand", "gender", "category", "price", "sizes", "status",
           "image_url", "description"}
RequiredFields == {"name", "brand", "price", "sizes"}
OptionalFields == {"gender", "category", "image_url", "description"}

\* status: str = "ativo"
DefaultStatus == Str("ativo", 5)

\* ------------------------------------------------------- pydantic schema
\* name: str  (required, must be a string)
FieldStr(v) == [ok |-> IsStr(v), val |-> v]

\* gender: Optional[str] = None
FieldOptStr(v) ==
    IF v.k \in {"absent", "null"} THEN [ok |-> TRUE, val |-> Null]
    ELSE [ok |-> IsStr(v), val |-> v]

\* price: float
FieldFloat(v) == [ok |-> IsNum(v), val |-> v]

\* status: str = "ativo"
FieldStatusNoDefault(v) ==
    IF v.k = "absent" THEN [ok |-> TRUE, val |-> Null]
    ELSE [ok |-> IsStr(v), val |-> v]
FieldStatus(v) ==
    IF v.k = "absent" THEN [ok |-> TRUE, val |-> DefaultStatus]
    ELSE [ok |-> IsStr(v), val |-> v]

\* ProductBase(**body): each member validated by its annotation.
ParseFields(body) ==
    [name |-> FieldStr(body.name),
     brand |-> FieldStr(body.brand),
     gender |-> FieldOptStr(body.gender),
     category |-> FieldOptStr(body.category),
     price |-> FieldFloat(body.price),
     sizes |-> FieldStr(body.sizes),
     status |-> FieldStatus(body.status),
     image_url |-> FieldOptStr(body.image_url),
     description |-> FieldOptStr(body.description)]

\* The request-validation boundary: ok, or a 422 before the handler runs;
\* data is product_in.dict().
ProductBase(body) ==
    LET p == ParseFields(body) IN
    [ok |-> \A f \in Fields : p[f].ok,
     data |-> [f \in Fields |-> p[f].val]]

\* ------------------------------------------------------------ the table
\* Product(**data) with its primary key.
ProductNoDescription(id, data) ==
    [id |-> id, name |-> data.name, brand |-> data.brand, gender |-> data.gender,
     category |-> data.category, price |-> data.price, sizes |-> data.sizes,
     status |-> data.status, image_url |-> data.image_url,
     description |-> Null]
Product(id, data) ==
    [id |-> id, name |-> data.name, brand |-> data.brand, gender |-> data.gender,
     category |-> data.category, price |-> data.price, sizes |-> data.sizes,
     status |-> data.status, image_url |-> data.image_url,
     description |-> data.description]

\* A String(n) column holds the value. An engine that enforces the declared
\* lengths refuses a longer one on commit.
Within(v, n) == IsStr(v) => v.len <= n
ColumnsFit(row) ==
    /\ Within(row.name, NameLen)
    /\ Within(row.brand, BrandLen)
    /\ Within(row.gender, GenderLen)
    /\ Within(row.category, CategoryLen)
    /\ Within(row.sizes, SizesLen)
    /\ Within(row.status, StatusLen)
    /\ Within(row.image_url, ImageUrlLen)

\* ProductOut, from_attributes=True
ProductOut(row) ==
    [id |-> row.id, name |-> row.name, brand |-> row.brand, gender |-> row.gender,
     category |-> row.category, price |-> row.price, sizes |-> row.sizes,
     status |-> row.status, image_url |-> row.image_url,
     description |-> row.description]

NoOut == [k |-> "none"]
NoBody == [k |-> "none"]

\* ------------------------------------------------------------------ state
VARIABLES
    table,      \* the products table: its rows, in primary key order
    strict,     \* whether the storage engine enforces the String(n) lengths
    last,       \* the request handled last and its response
    nCreate,    \* successful creates so far
    nDelete,    \* successful deletes so far
    gone,       \* ids deleted and not handed out again since
    written,    \* per id: the request that wrote the live row last
    up,         \* per upload request: its progress and its locals
    files,      \* the uploads directory: stored name -> bytes
    issued      \* uuid4 values handed out

storeVars == <<table, strict, last, nCreate, nDelete, gone, written>>
uploadVars == <<up, files, issued>>
vars == <<table, strict, last, nCreate, nDelete, gone, written, up, files, issued>>

Ids == 1..MaxId

\* ------------------------------------------------------ storage queries
Indexes(t) == 1..Len(t)
IdsOf(t) == {t[i].id : i \in Indexes(t)}

\* db.query(Product).all()
QueryAllActive(t) == SelectSeq(t, LAMBDA r : r.status = DefaultStatus)
QueryAll(t) == t

\* db.query(Product).filter(Product.id == product_id): the matching rows
FilterById(t, id) == SelectSeq(t, LAMBDA r : r.id = id)

\* .first(): the first matching row, or None
HasFirst(t, id) == Len(FilterById(t, id)) > 0
First(t, id) == FilterById(t, id)[1]

\* The primary key of a new row: a key no stored row has.
AnyIds(t) == Ids
FreeIds(t) == Ids \ IdsOf(t)

\* db.add(product); db.commit(): the row takes its place in key order
Insert(t, row) ==
    SelectSeq(t, LAMBDA r : r.id <= row.id) \o <<row>>
        \o SelectSeq(t, LAMBDA r : r.id > row.id)

\* for field, value in product_in.dict().items(): setattr(product, field, value)
SetAttrsMerge(row, data) ==
    Product(row.id, [f \in Fields |->
        IF data[f] = Null THEN row[f] ELSE data[f]])
SetAttrs(row, data) == Product(row.id, data)

\* update_product's commit: the row found is the row rewritten
CommitUpdate(t, id, data) ==
    [i \in Indexes(t) |-> IF t[i].id = id THEN SetAttrs(t[i], data) ELSE t[i]]

\* db.delete(product); db.commit()
DeleteKeep(t, id) == t
DeleteRow(t, id) == SelectSeq(t, LAMBDA r : r.id # id)

\* ---------------------------------------------------------- the handlers
\* Each handler as a function of the table it finds: the response status,
\* the response body and the table it leaves.
Result(status, out, rows, t) ==
    [status |-> status, out |-> out, rows |-> rows, table |-> t]

\* GET /products
list_products(t) == Result(200, NoOut, QueryAll(t), t)

\* GET /products/{product_id}
get_product(t, id) ==
    IF ~HasFirst(t, id) THEN Result(404, NoOut, <<>>, t)
    ELSE Result(200, ProductOut(First(t, id)), <<>>, t)

\* POST /products, the body already validated; id is the key the engine
\* gives the row; enforce: the engine refuses a value longer than its column.
create_product(t, enforce, id, data) ==
    LET product == Product(id, data) IN
    IF enforce /\ ~ColumnsFit(product) THEN Result(500, NoOut, <<>>, t)
    ELSE LET t2 == Insert(t, product) IN
         Result(201, ProductOut(First(t2, id)), <<>>, t2)

\* PUT /products/{product_id}, the body already validated
update_product_upsert(t, enforce, id, data) ==
    IF ~HasFirst(t, id)
    THEN Result(404, NoOut, <<>>, Insert(t, Product(id, data)))
    ELSE LET t2 == CommitUpdate(t, id, data) IN
         Result(200, ProductOut(First(t2, id)), <<>>, t2)
update_product(t, enforce, id, data) ==
    IF ~HasFirst(t, id) THEN Result(404, NoOut, <<>>, t)
    ELSE IF enforce /\ ~ColumnsFit(SetAttrs(First(t, id), data))
         THEN Result(500, NoOut, <<>>, t)
         ELSE LET t2 == CommitUpdate(t, id, data) IN
              Result(200, ProductOut(First(t2, id)), <<>>, t2)

\* DELETE /products/{product_id}
delete_product(t, id) ==
    IF ~HasFirst(t, id) THEN Result(404, NoOut, <<>>, t)
    ELSE Result(204, NoOut, <<>>, DeleteRow(t, id))

\* ------------------------------------------------------- image upload
\* Text is a sequence of characters.
UpperCase == <<"A", "B", "C", "D", "E", "F", "G", "H", "I", "J", "K", "L", "M",
               "N", "O", "P", "Q", "R", "S", "T", "U", "V", "W", "X", "Y", "Z">>
LowerCase == <<"a", "b", "c", "d", "e", "f", "g", "h", "i", "j", "k", "l", "m",
               "n", "o", "p", "q", "r", "s", "t", "u", "v", "w", "x", "y", "z">>

\* str.lower(), one character
LowerChar(c) ==
    IF \E i \in 1..26 : UpperCase[i] = c
    THEN LowerCase[CHOOSE i \in 1..26 : UpperCase[i] = c]
    ELSE c

\* str.lower()
KeepCase(str) == str
Lower(str) == [i \in 1..Len(str) |-> LowerChar(str[i])]

\* str.rfind(c): the last position of c, 0 when there is none
RFind(p, c) ==
    IF \E i \in 1..Len(p) : p[i] = c
    THEN CHOOSE i \in 1..Len(p) : p[i] = c /\ \A j \in (i + 1)..Len(p) : p[j] # c
    ELSE 0

\* os.path.splitext's scan of the last path component: whether a character
\* other than the dot stands before the last dot
RECURSIVE StemBeforeDot(_, _, _)
StemBeforeDot(p, filenameIndex, dotIndex) ==
    IF filenameIndex >= dotIndex THEN FALSE
    ELSE IF p[filenameIndex] # "." THEN TRUE
    ELSE StemBeforeDot(p, filenameIndex + 1, dotIndex)

\* os.path.splitext(original_name)[1]
SplitExt(p) ==
    LET sepIndex == RFind(p, "/")
        dotIndex == RFind(p, ".")
    IN IF dotIndex > sepIndex /\ StemBeforeDot(p, sepIndex + 1, dotIndex)
       THEN SubSeq(p, dotIndex, Len(p))
       ELSE <<>>

\* [".jpg", ".jpeg", ".png", ".webp"]
AllowedExts ==
    {<<".", "j", "p", "g">>, <<".", "j", "p", "e", "g">>, <<".", "p", "n", "g">>,
     <<".", "w", "e", "b", "p">>}

\* ext = os.path.splitext(original_name)[1].lower()
Ext(original_name) == Lower(SplitExt(original_name))

\* uuid.uuid4(): a value not handed out before
Tokens == 1..NUploads
Uuid4(used) == Tokens \ used

\* f"{uuid.uuid4().hex}{ext}": the token's 32 hex digits, then the extension
Hex(tok) == <<"hex", tok>>
NewNameFixed(tok, ext) == <<Hex(0)>> \o ext
NewName(tok, ext) == <<Hex(tok)>> \o ext

\* str(request.base_url).rstrip("/")
BaseUrl == <<"http://host", "/">>
RECURSIVE RStripSlash(_)
RStripSlash(str) ==
    IF Len(str) > 0 /\ str[Len(str)] = "/"
    THEN RStripSlash(SubSeq(str, 1, Len(str) - 1))
    ELSE str

\* f"{base_url}/static/uploads/{new_name}"
Url(new_name) == RStripSlash(BaseUrl) \o <<"/", "static", "/", "uploads", "/">> \o new_name

\* open(save_path, "wb"): the file exists and is empty
OpenWb(dir, name) ==
    [n \in DOMAIN dir \cup {name} |-> IF n = name THEN <<>> ELSE dir[n]]

\* f.write(data), and the handle closed
WriteAll(dir, name, data) ==
    [n \in DOMAIN dir \cup {name} |-> IF n = name THEN data ELSE dir[n]]

\* --------------------------------------------------------- request bodies
RunnerX ==
    [name |-> Str("Runner X", 8), brand |-> Str("Acme", 4), gender |-> Absent,
     category |-> Absent, price |-> Num(12990), sizes |-> Str("40,41,42", 8),
     status |-> Absent, image_url |-> Absent, description |-> Absent]
FullRecord ==
    [name |-> Str("Court Pro", 9), brand |-> Str("Volt", 4),
     gender |-> Str("Unissex", 7), category |-> Str("Corrida", 7),
     price |-> Num(9990), sizes |-> Str("37,38", 5), status |-> Str("inativo", 7),
     image_url |-> Str("/static/uploads/a.png", 21),
     description |-> Str("Leve", 4)]
BadPrice == [RunnerX EXCEPT !.price = Str("abc", 3)]
OnlyOptional ==
    [name |-> Absent, brand |-> Absent, gender |-> Str("Unissex", 7),
     category |-> Null, price |-> Absent, sizes |-> Absent, status |-> Absent,
     image_url |-> Absent, description |-> Absent]
LongName == [RunnerX EXCEPT !.name = Str("name of 201 characters", NameLen + 1)]

Bodies == {RunnerX, FullRecord, BadPrice, OnlyOptional, LongName}

\* ---------------------------------------------------------------- actions
Request(op, id, body, r) ==
    [op |-> op, id |-> id, body |-> body, status |-> r.status, out |-> r.out,
     rows |-> r.rows]
Rejected422 == [status |-> 422, out |-> NoOut, rows |-> <<>>]
NotWritten == [by |-> "none", body |-> NoBody]

List ==
    LET r == list_products(table) IN
    /\ last' = Request("list", 0, NoBody, r)
    /\ table' = r.table
    /\ UNCHANGED <<strict, nCreate, nDelete, gone, written, uploadVars>>

Get(id) ==
    LET r == get_product(table, id) IN
    /\ last' = Request("get", id, NoBody, r)
    /\ table' = r.table
    /\ UNCHANGED <<strict, nCreate, nDelete, gone, written, uploadVars>>

Create(body) ==
    LET v == ProductBase(body) IN
    IF ~v.ok
    THEN /\ last' = Request("create", 0, body, Rejected422)
         /\ UNCHANGED <<table, strict, nCreate, nDelete, gone, written, uploadVars>>
    ELSE /\ nCreate < MaxCreates
         /\ \E id \in FreeIds(table) :
              LET r == create_product(table, strict, id, v.data) IN
              /\ table' = r.table
              /\ IF r.status = 201
                 THEN /\ last' = Request("create", id, body, r)
                      /\ nCreate' = nCreate + 1
                      /\ gone' = gone \ {id}
                      /\ written' = [written EXCEPT
                                       ![id] = [by |-> "create", body |-> body]]
                 ELSE /\ last' = Request("create", 0, body, r)
                      /\ UNCHANGED <<nCreate, gone, written>>
              /\ UNCHANGED <<strict, nDelete, uploadVars>>

Update(id, body) ==
    LET v == ProductBase(body) IN
    IF ~v.ok
    THEN /\ last' = Request("update", id, body, Rejected422)
         /\ UNCHANGED <<table, strict, nCreate, nDelete, gone, written, uploadVars>>
    ELSE LET r == update_product(table, strict, id, v.data) IN
         /\ table' = r.table
         /\ last' = Request("update", id, body, r)
         /\ written' = IF r.status = 200
                       THEN [written EXCEPT ![id] = [by |-> "update", body |-> body]]
                       ELSE written
         /\ UNCHANGED <<strict, nCreate, nDelete, gone, uploadVars>>

Delete(id) ==
    LET r == delete_product(table, id) IN
    /\ table' = r.table
    /\ last' = Request("delete", id, NoBody, r)
    /\ IF r.status = 204
       THEN /\ nDelete' = nDelete + 1
            /\ gone' = gone \cup {id}
            /\ written' = [written EXCEPT ![id] = NotWritten]
       ELSE UNCHANGED <<nDelete, gone, written>>
    /\ UNCHANGED <<strict, nCreate, uploadVars>>

\* ------------------------------------------------ upload requests
Uploads == 1..NUploads
IdleUpload ==
    [pc |-> "idle", filename |-> <<>>, data |-> <<>>, new_name |-> <<>>,
     status |-> 0, url |-> <<>>]
NoFiles == [n \in {} |-> <<>>]

PhotoPNG == <<"p", "h", "o", "t", "o", ".", "P", "N", "G">>
PhotoGIF == <<"p", "h", "o", "t", "o", ".", "G", "I", "F">>
Photo == <<"p", "h", "o", "t", "o">>
Filenames ==
    {PhotoPNG, PhotoGIF, Photo,
     <<"a", ".", "j", "p", "g">>,
     <<"a", ".", "J", "p", "e", "g">>,
     <<"a", ".", "t", "x", "t", ".", "w", "e", "b", "p">>,
     <<".", "p", "n", "g">>,
     <<"a", ".", "p", "n", "g", "/", "b">>,
     <<"a", "/", ".", ".", "j", "p", "g">>,
     <<"a", "p", "n", "g">>}
Contents == {<<137, 80>>, <<255>>}

\* upload_image up to its await: the extension check, the generated name, the
\* file opened for writing
UploadBegin(u, original_name) ==
    /\ up[u].pc = "idle"
    /\ LET ext == Ext(original_name) IN
       IF ext \notin AllowedExts
       THEN /\ up' = [up EXCEPT ![u] = [pc |-> "done", filename |-> original_name,
                                         data |-> <<>>, new_name |-> <<>>,
                                         status |-> 400, url |-> <<>>]]
            /\ UNCHANGED <<files, issued>>
       ELSE \E tok \in Uuid4(issued) :
              LET new_name == NewName(tok, ext) IN
              /\ issued' = issued \cup {tok}
              /\ files' = OpenWb(files, new_name)
              /\ up' = [up EXCEPT ![u] = [pc |-> "reading", filename |-> original_name,
                                           data |-> <<>>, new_name |-> new_name,
                                           status |-> 0, url |-> <<>>]]
    /\ UNCHANGED storeVars

\* upload_image after file.read() returned data, the bytes of the request:
\* the bytes written, the file closed, the URL answered
UploadFinish(u, data) ==
    /\ up[u].pc = "reading"
    /\ files' = WriteAll(files, up[u].new_name, data)
    /\ up' = [up EXCEPT ![u].pc = "done", ![u].status = 200, ![u].data = data,
                        ![u].url = Url(up[u].new_name)]
    /\ UNCHANGED <<issued, storeVars>>

Init ==
    /\ table = <<>>
    /\ strict \in BOOLEAN
    /\ last = [op |-> "none", id |-> 0, body |-> NoBody, status |-> 0,
               out |-> NoOut, rows |-> <<>>]
    /\ nCreate = 0
    /\ nDelete = 0
    /\ gone = {}
    /\ written = [i \in Ids |-> NotWritten]
    /\ up = [u \in Uploads |-> IdleUpload]
    /\ files = NoFiles
    /\ issued = {}

Next ==
    \/ List
    \/ \E id \in Ids : Get(id)
    \/ \E body \in Bodies : Create(body)
    \/ \E id \in Ids, body \in Bodies : Update(id, body)
    \/ \E id \in Ids : Delete(id)

Spec == Init /\ [][Next]_vars

NextUpload ==
    \/ \E u \in Uploads, original_name \in Filenames : UploadBegin(u, original_name)
    \/ \E u \in Uploads, data \in Contents : UploadFinish(u, data)

\* The upload route never reaches the storage engine.
InitUpload == Init /\ ~strict

SpecUpload == InitUpload /\ [][NextUpload]_vars

\* ------------------------------------------------------- Product claims
Range(t) == {t[i] : i \in Indexes(t)}
Live == {i \in Ids : written[i].by # "none"}
Supplied(body, f) == body[f] # Absent

\* What a Get answers for a body that was supplied: every supplied member as
\* supplied, every optional member left out null.
AsSupplied(out, body) ==
    \A f \in Fields :
        /\ Supplied(body, f) => out[f] = body[f]
        /\ (~Supplied(body, f) /\ f \in OptionalFields) => out[f] = Null

\* C1: after a Create that succeeded with id i, and until an Update or Delete
\* of i, Get(i) answers 200 with id = i, every supplied field as supplied and
\* every omitted optional field null.
C1_CreateThenGet ==
    \A i \in Ids :
        written[i].by = "create" =>
            LET r == get_product(table, i) IN
            /\ r.status = 200
            /\ r.out.id = i
            /\ AsSupplied(r.out, written[i].body)
C1_Witness ==
    /\ last.op = "get"
    /\ last.status = 200
    /\ written[last.id] = [by |-> "create", body |-> FullRecord]
    /\ last.out.description = FullRecord.description

\* C2 as stated: an Update of an existing id that leaves out name, brand,
\* price, sizes or status is rejected with 422, and any other Update answers
\* with the supplied fields and null for each omitted optional field.
C2_AsStated ==
    (last.op = "update" /\ HasFirst(table, last.id)) =>
        IF \E f \in RequiredFields \cup {"status"} : ~Supplied(last.body, f)
        THEN last.status = 422
        ELSE last.status = 200 => AsSupplied(last.out, last.body)

\* C2 amended: after a successful Update of i, Get(i) answers every supplied
\* field as supplied, null for every omitted optional field and "ativo" for
\* an omitted status, whatever the row held before; an Update that leaves out
\* name, brand, price or sizes is rejected with 422.
C2_UpdateOverwrites ==
    /\ \A i \in Ids :
        written[i].by = "update" =>
            LET r == get_product(table, i) IN
            /\ r.status = 200
            /\ r.out.id = i
            /\ AsSupplied(r.out, written[i].body)
            /\ ~Supplied(written[i].body, "status") => r.out.status = Str("ativo", 5)
    /\ (last.op = "update" /\ \E f \in RequiredFields : ~Supplied(last.body, f))
            => last.status = 422
C2_Witness ==
    /\ last.op = "update"
    /\ last.status = 200
    /\ last.body = RunnerX
    /\ nCreate = 1
    /\ nDelete = 0
    /\ last.out.gender = Null
    /\ \E i \in Ids : written[i] = [by |-> "update", body |-> RunnerX]

\* C3: an id that was deleted and has not been handed out by a later Create
\* is not found by Get (404).
C3_DeleteThenGet ==
    \A i \in gone : get_product(table, i).status = 404
C3_Witness ==
    /\ last.op = "get"
    /\ last.id \in gone
    /\ last.status = 404
    /\ Len(table) > 0

\* C4: List succeeds and answers exactly N - M records after N successful
\* creates and M successful deletes, one per live id and no id twice; the
\* empty sequence when no Product exists.
C4_ListCount ==
    LET r == list_products(table) IN
    /\ r.status = 200
    /\ Len(r.rows) = nCreate - nDelete
    /\ {r.rows[k].id : k \in 1..Len(r.rows)} = Live
    /\ \A j, k \in 1..Len(r.rows) : r.rows[j].id = r.rows[k].id => j = k
    /\ nCreate = nDelete => r.rows = <<>>
C4_Witness ==
    /\ last.op = "list"
    /\ nCreate = 3
    /\ nDelete = 1
    /\ Len(last.rows) = 2

\* C5 as stated: a Create that omits status stores and returns status "active".
C5_AsStated ==
    (last.op = "create" /\ last.status = 201 /\ ~Supplied(last.body, "status"))
        => last.out.status = Str("active", 6)

\* C5 amended: a Create that omits status stores and returns status "ativo".
C5_DefaultStatus ==
    /\ (last.op = "create" /\ last.status = 201 /\ ~Supplied(last.body, "status"))
            => last.out.status = Str("ativo", 5)
    /\ \A i \in Ids :
        (written[i].by = "create" /\ ~Supplied(written[i].body, "status"))
            => get_product(table, i).out.status = Str("ativo", 5)
C5_Witness ==
    /\ last.op = "create"
    /\ last.status = 201
    /\ last.body = RunnerX
    /\ last.out.status.txt = "ativo"

\* C8: the length limit of each string field
Limit ==
    [name |-> NameLen, brand |-> BrandLen, gender |-> GenderLen,
     category |-> CategoryLen, sizes |-> SizesLen, status |-> StatusLen,
     image_url |-> ImageUrlLen]
OverLength(body) ==
    \E f \in DOMAIN Limit : IsStr(body[f]) /\ body[f].len > Limit[f]
MissingRequired(body) ==
    \E f \in RequiredFields : ~Supplied(body, f)
PriceNotNumeric(body) == Supplied(body, "price") /\ ~IsNum(body.price)

\* C8: a Create or Update whose body misses a required field, has a price
\* that is not numeric or a string over its length limit is answered 422, and
\* no stored Product has a field over its length limit.
C8_ValidationRejects ==
    /\ (/\ last.op \in {"create", "update"}
        /\ \/ MissingRequired(last.body)
           \/ PriceNotNumeric(last.body)
           \/ OverLength(last.body))
            => last.status = 422
    /\ \A k \in Indexes(table) :
        \A f \in DOMAIN Limit : Within(table[k][f], Limit[f])

\* C9: a Get, a Delete or an Update (its body valid) of an id that is not in
\* the store answers 404 and leaves the table as it was.
C9_NotFoundStep ==
    (/\ last'.op \in {"get", "update", "delete"}
     /\ ~HasFirst(table, last'.id)
     /\ last'.op = "update" => ProductBase(last'.body).ok)
        => /\ last'.status = 404
           /\ table' = table
C10_UpdateFrame ==
    (last'.op = "update" /\ last'.status = 200) =>
        /\ Len(table') = Len(table)
        /\ last'.out.id = last'.id
        /\ \A k \in Indexes(table) :
            /\ table'[k].id = table[k].id
            /\ table[k].id # last'.id => table'[k] = table[k]
C10_DeleteFrame ==
    (last'.op = "delete" /\ last'.status = 204) =>
        /\ IdsOf(table') = IdsOf(table) \ {last'.id}
        /\ Len(table') = Len(table) - 1
        /\ Range(table') = {r \in Range(table) : r.id # last'.id}
C10_CreateFrame ==
    (last'.op = "create" /\ last'.status = 201) =>
        /\ last'.id \notin IdsOf(table)
        /\ last'.out.id = last'.id
        /\ Len(table') = Len(table) + 1
        /\ Range(table) \subseteq Range(table')
        /\ IdsOf(table') = IdsOf(table) \cup {last'.id}
C10_DistinctIds ==
    \A j, k \in Indexes(table') : table'[j].id = table'[k].id => j = k
\* C10: every step keeps the frame of the operation it handles and leaves the
\* stored ids pairwise distinct.
C10_OneProductTouched ==
    [][C10_UpdateFrame /\ C10_DeleteFrame /\ C10_CreateFrame /\ C10_DistinctIds]_vars
C10_Witness ==
    /\ last.op = "update"
    /\ last.status = 200
    /\ Len(table) = 2
    /\ table[1].name # table[2].name

\* -------------------------------------------------------- upload claims
\* The extension of a filename: from the last dot of its last path component
\* on, when a character other than the dot stands before that dot there.
IsExtStart(p, i) ==
    /\ p[i] = "."
    /\ \A j \in (i + 1)..Len(p) : p[j] \notin {".", "/"}
    /\ \E j \in 1..(i - 1) :
        /\ p[j] # "."
        /\ \A k \in j..i : p[k] # "/"
SameLetter(a, b) ==
    \/ a = b
    \/ \E i \in 1..26 : {a, b} = {UpperCase[i], LowerCase[i]}
HasExtension(p, e) ==
    \E i \in 1..Len(p) :
        /\ IsExtStart(p, i)
        /\ Len(p) - i + 1 = Len(e)
        /\ \A k \in 1..Len(e) : SameLetter(p[i + k - 1], e[k])
Supported(p) == \E e \in AllowedExts : HasExtension(p, e)

Accepted(u) == up[u].pc = "reading" \/ (up[u].pc = "done" /\ up[u].status = 200)
Refused(u) == up[u].pc = "done" /\ up[u].status = 400

\* C6: an upload is accepted if and only if the extension of its filename is,
\* letter case aside, one of .jpg .jpeg .png .webp; photo.PNG is answered a
\* URL, photo.GIF and photo are refused with 400; the uploads directory holds
\* the files of the accepted uploads and no other.
C6_ExtensionCheck ==
    /\ \A u \in Uploads :
        up[u].pc # "idle" =>
            /\ Accepted(u) <=> Supported(up[u].filename)
            /\ Refused(u) <=> ~Supported(up[u].filename)
            /\ up[u].filename = PhotoPNG => Accepted(u)
            /\ up[u].filename \in {PhotoGIF, Photo} => Refused(u)
            /\ (up[u].pc = "done" /\ Accepted(u)) => up[u].url # <<>>
            /\ Refused(u) => up[u].url = <<>>
    /\ DOMAIN files = {up[u].new_name : u \in {v \in Uploads : Accepted(v)}}
C6_Witness ==
    \E u, v \in Uploads :
        /\ up[u].filename = PhotoPNG
        /\ up[u].pc = "done"
        /\ up[u].status = 200
        /\ up[v].filename = PhotoGIF
        /\ up[v].status = 400
        /\ Cardinality(DOMAIN files) = 1

\* C7: uploads that were answered a URL each have a stored file of their own
\* that holds the bytes of that upload, under names and URLs that differ from
\* upload to upload, whatever the filenames sent and however the uploads
\* interleave.
C7_DistinctFiles ==
    \A u \in Uploads :
        (up[u].pc = "done" /\ up[u].status = 200) =>
            /\ up[u].new_name \in DOMAIN files
            /\ files[up[u].new_name] = up[u].data
            /\ \A v \in Uploads \ {u} :
                Accepted(v) =>
                    /\ up[v].new_name # up[u].new_name
                    /\ up[v].pc = "done" => up[v].url # up[u].url
C7_Witness ==
    \E u, v \in Uploads :
        /\ u # v
        /\ up[u].pc = "done"
        /\ up[v].pc = "done"
        /\ up[u].filename = PhotoPNG
        /\ up[v].filename = PhotoPNG
        /\ up[u].data # up[v].data
        /\ up[u].url # up[v].url
        /\ Cardinality(DOMAIN files) = 2
====
